---------------------------- MODULE Spec2Model ----------------------------
(***************************************************************************)
(* Model of ts-ml-bundle: the click command `main` (cli.py) and the        *)
(* ProjectGenerator (generator.py) that materialises a project tree.       *)
(*                                                                         *)
(* Encoding of the data:                                                   *)
(*  - a str is a sequence of one-character strings where the code looks    *)
(*    inside it (project_name), an atomic string otherwise;                *)
(*  - a path relative to project_path is a sequence of components, and a   *)
(*    component is its name split at the dots ("io.py" is <<"io","py">>),  *)
(*    so that str.endswith('.py') is decided from the name itself;         *)
(*  - a text is a sequence of lines, a line a sequence of strings;         *)
(*  - the filesystem below project_path is a function from paths to        *)
(*    entries [kind, content], kind one of "absent", "dir", "file".        *)
(***************************************************************************)
EXTENDS Naturals, Sequences, FiniteSets, TLC

VARIABLES
    args,          \* the command's parameters: name, workspace_host, model_type, use_gpu
    templates,     \* the template directory: template name -> state of that template
    fs,            \* the filesystem below project_path
    pc,            \* where the current invocation of main stands
    existed,       \* what project_path.exists() returned ("unknown" before the call)
    confirmed,     \* the answer to click.confirm ("none": not asked)
    generator,     \* << >>, or the ProjectGenerator of this invocation in a 1-tuple
    template_vars, \* << >>, or what get_template_vars() returned in a 1-tuple
    exc,           \* the exception in flight or re-raised ("" for none)
    out,           \* what this invocation printed: click.echo lines and warnings
    opens,         \* output path -> open(..., 'w') calls on it in this run of generate
    outcome,       \* output path -> "pending", "rendered", "fallback" or "raised"
    invocation,    \* how many times the command has been started
    fs_start,      \* history: the filesystem when this invocation started
    fs_returned    \* history: << >>, or the filesystem an earlier invocation's
                   \* generate left when it returned, in a 1-tuple

vars == << args, templates, fs, pc, existed, confirmed, generator, template_vars, exc,
           out, opens, outcome, invocation, fs_start, fs_returned >>

---------------------------------------------------------------------------
(* Bounds of the model *)

\* Number of times the command is started against the same destination.
MaxInvocations == 2

---------------------------------------------------------------------------
(* Small helpers on sequences *)

Range(s) == { s[k] : k \in DOMAIN s }

Last(s) == s[Len(s)]

Front(s) == SubSeq(s, 1, Len(s) - 1)

Prefixes(s) == { SubSeq(s, 1, k) : k \in 0..Len(s) }

---------------------------------------------------------------------------
(* cli.py: the command's options *)

\* click.Choice([...]) of --model-type
ModelTypeChoice == {"classification", "regression", "segmentation", "nlp", "custom"}

\* Values a caller of ProjectGenerator(...) can pass that the option rejects.
OtherModelTypes == {"clustering", ""}

\* project_name values a caller passes: "ml", "a-b", "x--y"
ProjectNames == { <<"m", "l">>, <<"a", "-", "b">>, <<"x", "-", "-", "y">> }

\* --name values the command is run with: "ml", "a-b"
CliNames == { <<"m", "l">>, <<"a", "-", "b">> }

\* --model-type and --use-gpu as the command is run here: the options' defaults,
\* and a GPU segmentation project.
CliModelOptions ==
    { [model_type |-> "custom", use_gpu |-> FALSE],
      [model_type |-> "segmentation", use_gpu |-> TRUE] }

WorkspaceHosts == {"https://x.cloud.example.com"}

---------------------------------------------------------------------------
(* generator.py: get_template_vars and _get_model_dependencies *)

\* str.replace("-", "_")
RECURSIVE replace_hyphen(_)
replace_hyphen(s) ==
    IF s = << >> THEN << >>
    ELSE << (IF Head(s) = "-" THEN "_" ELSE Head(s)) >> \o replace_hyphen(Tail(s))

\* The table `deps` of _get_model_dependencies.
deps ==
    [ segmentation   |-> <<"monai>=1.3.0", "cellpose==3.0.6", "segment-anything-py">>,
      nlp            |-> <<"transformers>=4.20.0", "datasets>=2.0.0", "tokenizers>=0.13.0">>,
      classification |-> <<"scikit-learn>=1.3.2", "xgboost>=1.7.0">>,
      regression     |-> <<"scikit-learn>=1.3.2", "statsmodels>=0.14.0">>,
      custom         |-> << >> ]

\* A dict.get(key, default) that forgets the default: a KeyError, shown as a marker.
get_model_dependencies_nodefault(model_type) ==
    IF model_type \in DOMAIN deps THEN deps[model_type] ELSE <<"KeyError">>

\* deps.get(self.model_type, [])
_get_model_dependencies(model_type) ==
    IF model_type \in DOMAIN deps THEN deps[model_type] ELSE << >>

get_template_vars(g) ==
    [ project_name            |-> g.project_name,
      project_name_underscore |-> replace_hyphen(g.project_name),
      workspace_host          |-> g.workspace_host,
      model_type              |-> g.model_type,
      use_gpu                 |-> g.use_gpu,
      spark_version           |-> IF g.use_gpu THEN "14.3.x-gpu-ml-scala2.12"
                                               ELSE "14.3.x-scala2.12",
      node_type               |-> IF g.use_gpu THEN "g4dn.xlarge" ELSE "i3.xlarge",
      gpu_libraries           |-> IF g.use_gpu THEN <<"torch>=2.0.0", "torchvision>=0.15.0">>
                                               ELSE << >>,
      model_specific_deps     |-> _get_model_dependencies(g.model_type) ]

\* ProjectGenerator.__init__
NewGenerator(a) ==
    [ project_name   |-> a.name,
      workspace_host |-> a.workspace_host,
      model_type     |-> a.model_type,
      use_gpu        |-> a.use_gpu ]

---------------------------------------------------------------------------
(* generator.py: the two fixed lists *)

\* _create_directories: the list `directories`
directories ==
   << <<<<"src">>, <<"ds">>, <<"utils">>>>,
      <<<<"notebooks">>>>,
      <<<<"jobs">>>>,
      <<<<"policies">>>>,
      <<<<"ci">>>>,
      <<<<"docs">>>> >>

\* _generate_files: the list `files_to_generate` of (template, output path) pairs
files_to_generate ==
   <<
      << "databricks.yaml.j2",
         <<<<"databricks", "yaml">>>> >>,
      << "requirements.txt.j2",
         <<<<"requirements", "txt">>>> >>,
      << "requirements-lock.txt.j2",
         <<<<"requirements-lock", "txt">>>> >>,
      << "README.md.j2",
         <<<<"README", "md">>>> >>,
      << ".gitignore.j2",
         <<<<"", "gitignore">>>> >>,
      << "src/ds/__init__.py.j2",
         <<<<"src">>, <<"ds">>, <<"__init__", "py">>>> >>,
      << "src/ds/preprocess.py.j2",
         <<<<"src">>, <<"ds">>, <<"preprocess", "py">>>> >>,
      << "src/ds/train.py.j2",
         <<<<"src">>, <<"ds">>, <<"train", "py">>>> >>,
      << "src/ds/register.py.j2",
         <<<<"src">>, <<"ds">>, <<"register", "py">>>> >>,
      << "src/ds/deploy_serving.py.j2",
         <<<<"src">>, <<"ds">>, <<"deploy_serving", "py">>>> >>,
      << "src/ds/utils/__init__.py.j2",
         <<<<"src">>, <<"ds">>, <<"utils">>, <<"__init__", "py">>>> >>,
      << "src/ds/utils/io.py.j2",
         <<<<"src">>, <<"ds">>, <<"utils">>, <<"io", "py">>>> >>,
      << "src/ds/utils/mlflow_utils.py.j2",
         <<<<"src">>, <<"ds">>, <<"utils">>, <<"mlflow_utils", "py">>>> >>,
      << "notebooks/01_preprocess.py.j2",
         <<<<"notebooks">>, <<"01_preprocess", "py">>>> >>,
      << "notebooks/02_train.py.j2",
         <<<<"notebooks">>, <<"02_train", "py">>>> >>,
      << "notebooks/03_register_and_validate.py.j2",
         <<<<"notebooks">>, <<"03_register_and_validate", "py">>>> >>,
      << "jobs/job_preprocess.yml.j2",
         <<<<"jobs">>, <<"job_preprocess", "yml">>>> >>,
      << "jobs/job_train.yml.j2",
         <<<<"jobs">>, <<"job_train", "yml">>>> >>,
      << "jobs/job_register.yml.j2",
         <<<<"jobs">>, <<"job_register", "yml">>>> >>,
      << "jobs/job_deploy_serving.yml.j2",
         <<<<"jobs">>, <<"job_deploy_serving", "yml">>>> >>,
      << "jobs/job_batch_inference.yml.j2",
         <<<<"jobs">>, <<"job_batch_inference", "yml">>>> >>,
      << "policies/cluster_policy_restricted.json.j2",
         <<<<"policies">>, <<"cluster_policy_restricted", "json">>>> >>,
      << "policies/serving_policy_serverless.json.j2",
         <<<<"policies">>, <<"serving_policy_serverless", "json">>>> >>,
      << "policies/email_notifications.json.j2",
         <<<<"policies">>, <<"email_notifications", "json">>>> >>,
      << "policies/mlflow_policy.json.j2",
         <<<<"policies">>, <<"mlflow_policy", "json">>>> >>,
      << "ci/github-actions.yml.j2",
         <<<<"ci">>, <<"github-actions", "yml">>>> >>,
      << "docs/GOVERNANCE.md.j2",
         <<<<"docs">>, <<"GOVERNANCE", "md">>>> >>
   >>

TemplateFiles == { files_to_generate[k][1] : k \in DOMAIN files_to_generate }

OutputFiles == { files_to_generate[k][2] : k \in DOMAIN files_to_generate }

\* Every path the generator can touch: the listed ones and their ancestors;
\* << >> is project_path itself.
Paths == UNION { Prefixes(p) : p \in Range(directories) \cup OutputFiles }

---------------------------------------------------------------------------
(* The filesystem operations the generator uses *)

Absent == [kind |-> "absent", content |-> << >>]

Dir == [kind |-> "dir", content |-> << >>]

File(text) == [kind |-> "file", content |-> text]

\* Path.exists()
exists(f, p) == f[p].kind # "absent"

\* Path.mkdir(parents=True, exist_ok=True): an existing directory is left alone,
\* a missing one is made with its missing ancestors, a regular file in the way
\* raises. The ancestors of project_path itself are taken to be creatable.
RECURSIVE mkdir(_, _)
mkdir(f, p) ==
    CASE f[p].kind = "dir"  -> [fs |-> f, err |-> ""]
      [] f[p].kind = "file" -> [fs |-> f, err |-> "FileExistsError"]
      [] OTHER ->
           IF p = << >> THEN [fs |-> [f EXCEPT ![p] = Dir], err |-> ""]
           ELSE LET up == mkdir(f, Front(p))
                IN  CASE up.err = "FileExistsError" ->
                            [fs |-> up.fs, err |-> "NotADirectoryError"]
                      [] up.err # "" -> up
                      [] OTHER -> [fs |-> [up.fs EXCEPT ![p] = Dir], err |-> ""]

\* open(p, 'x'): exclusive creation, an existing file raises.
open_x(f, p) ==
    CASE f[p].kind = "dir" -> [fs |-> f, err |-> "IsADirectoryError"]
      [] f[p].kind = "file" -> [fs |-> f, err |-> "FileExistsError"]
      [] p # << >> /\ f[Front(p)].kind = "absent" -> [fs |-> f, err |-> "FileNotFoundError"]
      [] p # << >> /\ f[Front(p)].kind = "file" -> [fs |-> f, err |-> "NotADirectoryError"]
      [] OTHER -> [fs |-> [f EXCEPT ![p] = File(<< >>)], err |-> ""]

\* open(p, 'w'): creates or truncates the file.
open_w(f, p) ==
    CASE f[p].kind = "dir" -> [fs |-> f, err |-> "IsADirectoryError"]
      [] p # << >> /\ f[Front(p)].kind = "absent" -> [fs |-> f, err |-> "FileNotFoundError"]
      [] p # << >> /\ f[Front(p)].kind = "file" -> [fs |-> f, err |-> "NotADirectoryError"]
      [] OTHER -> [fs |-> [f EXCEPT ![p] = File(<< >>)], err |-> ""]

\* str.endswith('.' + ext) on Path.name, the last component
endswith(name, ext) == Len(name) >= 2 /\ Last(name) = ext

---------------------------------------------------------------------------
(* generator.py: rendering, the loop of _generate_files, the fallback writer *)

\* What the template directory holds for one template name:
\*   "ok"            loads, renders, and the text can be written;
\*   "missing"       env.get_template raises TemplateNotFound;
\*   "syntax_error"  env.get_template raises TemplateSyntaxError;
\*   "render_error"  template.render raises (an undefined variable, a bad filter);
\*   "unencodable"   renders, but f.write(content) raises UnicodeEncodeError
\*                   (text the locale's encoding cannot represent).
TemplateStates == {"ok", "missing", "syntax_error", "render_error", "unencodable"}

\* str(bool)
str_bool(b) == IF b THEN "True" ELSE "False"

\* template.render(**template_vars): the text is a function of the template and
\* of every variable; the template's own text is opaque, so the rendered text is
\* written as the template's name followed by the values it can interpolate.
render(template_file, tv) ==
    << << template_file >>,
       tv.project_name,
       tv.project_name_underscore,
       << tv.workspace_host >>,
       << tv.model_type >>,
       << str_bool(tv.use_gpu) >>,
       << tv.spark_version >>,
       << tv.node_type >>,
       tv.gpu_libraries,
       tv.model_specific_deps >>

\* The chain with the '.yaml' test left out of the YAML branch.
basic_content_yml_only(name, tv) ==
    IF endswith(name, "py") THEN
        << <<"# ">> \o tv.project_name \o <<" - Generated file">>,
           <<"# TODO: Implement functionality">> >>
    ELSE IF endswith(name, "yml") THEN
        << <<"# ">> \o tv.project_name \o <<" - Generated YAML">>,
           <<"# TODO: Configure properly">> >>
    ELSE IF endswith(name, "json") THEN
        << <<"{">>, <<"  \"TODO\": \"Configure properly\"">>, <<"}">> >>
    ELSE IF endswith(name, "md") THEN
        << <<"# ">> \o tv.project_name, << >>, <<"TODO: Add documentation">> >>
    ELSE
        << <<"# ">> \o tv.project_name \o <<" - Generated file">> >>

\* _create_basic_file: the if/elif chain that picks the placeholder text
basic_content(name, tv) ==
    IF endswith(name, "py") THEN
        << <<"# ">> \o tv.project_name \o <<" - Generated file">>,
           <<"# TODO: Implement functionality">> >>
    ELSE IF endswith(name, "yml") \/ endswith(name, "yaml") THEN
        << <<"# ">> \o tv.project_name \o <<" - Generated YAML">>,
           <<"# TODO: Configure properly">> >>
    ELSE IF endswith(name, "json") THEN
        << <<"{">>, <<"  \"TODO\": \"Configure properly\"">>, <<"}">> >>
    ELSE IF endswith(name, "md") THEN
        << <<"# ">> \o tv.project_name, << >>, <<"TODO: Add documentation">> >>
    ELSE
        << <<"# ">> \o tv.project_name \o <<" - Generated file">> >>

\* _create_basic_file(file_path, template_vars); opened counts its open(..., 'w')
_create_basic_file(f, file_path, tv) ==
    LET md == mkdir(f, Front(file_path))
        content == basic_content(Last(file_path), tv)
    IN  IF md.err # "" THEN [fs |-> md.fs, err |-> md.err, opened |-> 0]
        ELSE LET op == open_w(md.fs, file_path)
             IN  IF op.err # "" THEN [fs |-> op.fs, err |-> op.err, opened |-> 0]
                 ELSE [fs |-> [op.fs EXCEPT ![file_path] = File(content)],
                       err |-> "", opened |-> 1]

\* A try block that opens the output file before it loads the template.
try_template_open_first(f, template_file, output_file, tv, tmpl) ==
    LET md == mkdir(f, Front(output_file))
    IN  IF md.err # "" THEN [fs |-> md.fs, err |-> md.err, opened |-> 0]
        ELSE LET op == open_w(md.fs, output_file)
             IN  CASE op.err # "" ->
                        [fs |-> op.fs, err |-> op.err, opened |-> 0]
                   [] tmpl[template_file] = "missing" ->
                        [fs |-> op.fs, err |-> "TemplateNotFound", opened |-> 1]
                   [] tmpl[template_file] = "syntax_error" ->
                        [fs |-> op.fs, err |-> "TemplateSyntaxError", opened |-> 1]
                   [] tmpl[template_file] = "render_error" ->
                        [fs |-> op.fs, err |-> "UndefinedError", opened |-> 1]
                   [] tmpl[template_file] = "unencodable" ->
                        [fs |-> op.fs, err |-> "UnicodeEncodeError", opened |-> 1]
                   [] OTHER ->
                        [fs |-> [op.fs EXCEPT ![output_file] =
                                    File(render(template_file, tv))],
                         err |-> "", opened |-> 1]

\* The try block of one iteration: get_template, render, parent.mkdir, open, write
try_template(f, template_file, output_file, tv, tmpl) ==
    CASE tmpl[template_file] = "missing" ->
            [fs |-> f, err |-> "TemplateNotFound", opened |-> 0]
      [] tmpl[template_file] = "syntax_error" ->
            [fs |-> f, err |-> "TemplateSyntaxError", opened |-> 0]
      [] tmpl[template_file] = "render_error" ->
            [fs |-> f, err |-> "UndefinedError", opened |-> 0]
      [] OTHER ->
            LET content == render(template_file, tv)
                md == mkdir(f, Front(output_file))
            IN  IF md.err # "" THEN [fs |-> md.fs, err |-> md.err, opened |-> 0]
                ELSE LET op == open_w(md.fs, output_file)
                     IN  CASE op.err # "" ->
                                [fs |-> op.fs, err |-> op.err, opened |-> 0]
                           [] tmpl[template_file] = "unencodable" ->
                                [fs |-> op.fs, err |-> "UnicodeEncodeError", opened |-> 1]
                           [] OTHER ->
                                [fs |-> [op.fs EXCEPT ![output_file] = File(content)],
                                 err |-> "", opened |-> 1]

Warning(output_file, e) ==
    [text |-> "Warning: Could not generate", path |-> output_file, error |-> e]

\* An except clause that prints the warning and does not call the fallback writer.
generate_one_nofallback(f, pair, tv, tmpl) ==
    LET t == try_template(f, pair[1], pair[2], tv, tmpl)
    IN  IF t.err = "" THEN
            [fs |-> t.fs, err |-> "", opened |-> t.opened,
             printed |-> << >>, outcome |-> "rendered"]
        ELSE
            [fs |-> t.fs, err |-> "", opened |-> t.opened,
             printed |-> << Warning(pair[2], t.err) >>, outcome |-> "fallback"]

\* One iteration of the loop: the try block, and the except clause that prints
\* the warning and calls the fallback writer; err is what leaves the iteration.
generate_one(f, pair, tv, tmpl) ==
    LET t == try_template(f, pair[1], pair[2], tv, tmpl)
    IN  IF t.err = "" THEN
            [fs |-> t.fs, err |-> "", opened |-> t.opened,
             printed |-> << >>, outcome |-> "rendered"]
        ELSE
            LET b == _create_basic_file(t.fs, pair[2], tv)
            IN  [fs |-> b.fs, err |-> b.err, opened |-> t.opened + b.opened,
                 printed |-> << Warning(pair[2], t.err) >>,
                 outcome |-> IF b.err = "" THEN "fallback" ELSE "raised"]

\* A loop that stops one pair short of the end of the list.
RECURSIVE generate_pairs_short(_, _, _, _)
generate_pairs_short(st, pairs, tv, tmpl) ==
    IF Len(pairs) <= 1 \/ st.err # "" THEN st
    ELSE LET p == Head(pairs)[2]
             r == generate_one(st.fs, Head(pairs), tv, tmpl)
         IN  generate_pairs_short(
                 [fs      |-> r.fs,
                  err     |-> r.err,
                  opens   |-> [st.opens EXCEPT ![p] = @ + r.opened],
                  outcome |-> [st.outcome EXCEPT ![p] = r.outcome],
                  printed |-> st.printed \o r.printed],
                 Tail(pairs), tv, tmpl)

\* A loop in which one failed template makes every later pair fail to load too.
RECURSIVE generate_pairs_sticky(_, _, _, _)
generate_pairs_sticky(st, pairs, tv, tmpl) ==
    IF pairs = << >> \/ st.err # "" THEN st
    ELSE LET p == Head(pairs)[2]
             failed == \E q \in DOMAIN st.outcome : st.outcome[q] = "fallback"
             r == generate_one(st.fs, Head(pairs), tv,
                               IF failed THEN [t \in DOMAIN tmpl |-> "missing"] ELSE tmpl)
         IN  generate_pairs_sticky(
                 [fs      |-> r.fs,
                  err     |-> r.err,
                  opens   |-> [st.opens EXCEPT ![p] = @ + r.opened],
                  outcome |-> [st.outcome EXCEPT ![p] = r.outcome],
                  printed |-> st.printed \o r.printed],
                 Tail(pairs), tv, tmpl)

\* The for loop over a list of pairs, from loop state st; an exception ends it.
RECURSIVE generate_pairs(_, _, _, _)
generate_pairs(st, pairs, tv, tmpl) ==
    IF pairs = << >> \/ st.err # "" THEN st
    ELSE LET p == Head(pairs)[2]
             r == generate_one(st.fs, Head(pairs), tv, tmpl)
         IN  generate_pairs(
                 [fs      |-> r.fs,
                  err     |-> r.err,
                  opens   |-> [st.opens EXCEPT ![p] = @ + r.opened],
                  outcome |-> [st.outcome EXCEPT ![p] = r.outcome],
                  printed |-> st.printed \o r.printed],
                 Tail(pairs), tv, tmpl)

NoOpens == [p \in OutputFiles |-> 0]

NoOutcome == [p \in OutputFiles |-> "pending"]

LoopStart(f) ==
    [fs |-> f, err |-> "", opens |-> NoOpens, outcome |-> NoOutcome, printed |-> << >>]

\* _generate_files(output_path)
_generate_files(f, tv, tmpl) == generate_pairs(LoopStart(f), files_to_generate, tv, tmpl)

\* _create_directories(output_path): the loop of mkdir calls; an exception ends it.
RECURSIVE mkdir_all(_, _)
mkdir_all(f, dirs) ==
    IF dirs = << >> THEN [fs |-> f, err |-> ""]
    ELSE LET r == mkdir(f, Head(dirs))
         IN  IF r.err # "" THEN r ELSE mkdir_all(r.fs, Tail(dirs))

_create_directories(f) == mkdir_all(f, directories)

---------------------------------------------------------------------------
(* The environment the command starts in *)

CliArgs ==
    { [ name |-> n, workspace_host |-> w,
        model_type |-> o.model_type, use_gpu |-> o.use_gpu ] :
      n \in CliNames, w \in WorkspaceHosts, o \in CliModelOptions }

AllTemplates(s) == [t \in TemplateFiles |-> s]

\* The states in the order used to mix them over the list.
StateOrder == <<"ok", "missing", "syntax_error", "render_error", "unencodable">>

\* A directory in which the states alternate along the list, starting at shift.
MixedTemplates(shift) ==
    [t \in TemplateFiles |->
        LET k == CHOOSE j \in DOMAIN files_to_generate : files_to_generate[j][1] = t
        IN  StateOrder[((k + shift) % Len(StateOrder)) + 1]]

\* Template directories: every template in the same state, exactly one
\* template in a state other than "ok", or the states mixed over the list.
TemplateDirs ==
    { AllTemplates(s) : s \in TemplateStates }
    \cup { [AllTemplates("ok") EXCEPT ![t] = s] :
              t \in TemplateFiles, s \in TemplateStates \ {"ok"} }
    \cup { MixedTemplates(shift) : shift \in DOMAIN StateOrder }

\* Text of a file that was at the destination before the command ran.
StaleText == << <<"stale">> >>

NoTree == [p \in Paths |-> Absent]

\* The tree with entry e at path p and directories above it.
TreeWith(p, e) ==
    [q \in Paths |-> IF q = p THEN e
                     ELSE IF q \in Prefixes(p) THEN Dir
                     ELSE Absent]

\* src, docs, README.md, src/ds/utils/io.py
PreexistingPaths ==
    { << <<"src">> >>,
      << <<"docs">> >>,
      << <<"README", "md">> >>,
      << <<"src">>, <<"ds">>, <<"utils">>, <<"io", "py">> >> }

\* Destinations: project_path missing, a regular file, an empty directory, or a
\* directory that already holds one of the generator's paths, as a directory or
\* as a regular file.
InitialTrees ==
    { NoTree, TreeWith(<< >>, File(StaleText)), TreeWith(<< >>, Dir) }
    \cup { TreeWith(p, e) : p \in PreexistingPaths, e \in {Dir, File(StaleText)} }

---------------------------------------------------------------------------
(* cli.py: main, one action per step; generator.py: generate, three steps *)

Echo(text, detail) == [text |-> text, path |-> << >>, error |-> detail]

Init ==
    /\ args \in CliArgs
    /\ templates \in TemplateDirs
    /\ fs \in InitialTrees
    /\ pc = "main"
    /\ existed = "unknown"
    /\ confirmed = "none"
    /\ generator = << >>
    /\ template_vars = << >>
    /\ exc = ""
    /\ out = << >>
    /\ opens = NoOpens
    /\ outcome = NoOutcome
    /\ invocation = 1
    /\ fs_start = fs
    /\ fs_returned = << >>

\* cli.py 44-48: the first echo and project_path.exists()
MainStart ==
    /\ pc = "main"
    /\ out' = Append(out, Echo("Creating Databricks ML project", ""))
    /\ existed' = IF exists(fs, << >>) THEN "yes" ELSE "no"
    /\ pc' = IF exists(fs, << >>) THEN "confirm" ELSE "construct"
    /\ UNCHANGED << args, templates, fs, confirmed, generator, template_vars, exc,
                    opens, outcome, invocation, fs_start, fs_returned >>

\* A confirmation whose answer is read and not acted on.
ConfirmIgnored ==
    /\ pc = "confirm"
    /\ \E answer \in {"yes", "no"} :
          /\ confirmed' = answer
          /\ pc' = "construct"
          /\ out' = out
    /\ UNCHANGED << args, templates, fs, existed, generator, template_vars, exc,
                    opens, outcome, invocation, fs_start, fs_returned >>

\* cli.py 49-51: click.confirm and the early return
Confirm ==
    /\ pc = "confirm"
    /\ \E answer \in {"yes", "no"} :
          /\ confirmed' = answer
          /\ pc' = IF answer = "yes" THEN "construct" ELSE "exit_aborted"
          /\ out' = IF answer = "yes" THEN out ELSE Append(out, Echo("Aborted.", ""))
    /\ UNCHANGED << args, templates, fs, existed, generator, template_vars, exc,
                    opens, outcome, invocation, fs_start, fs_returned >>

\* cli.py 54-59: ProjectGenerator(...)
Construct ==
    /\ pc = "construct"
    /\ generator' = << NewGenerator(args) >>
    /\ pc' = "generate"
    /\ UNCHANGED << args, templates, fs, existed, confirmed, template_vars, exc,
                    out, opens, outcome, invocation, fs_start, fs_returned >>

\* cli.py 61 and generator.py 47: generate starts, output_path.mkdir(...)
Generate ==
    /\ pc = "generate"
    /\ LET r == mkdir(fs, << >>)
       IN  /\ fs' = r.fs
           /\ exc' = r.err
           /\ pc' = IF r.err = "" THEN "create_directories" ELSE "raised"
    /\ UNCHANGED << args, templates, existed, confirmed, generator, template_vars,
                    out, opens, outcome, invocation, fs_start, fs_returned >>

\* generator.py 50: self._create_directories(output_path)
CreateDirectories ==
    /\ pc = "create_directories"
    /\ LET r == _create_directories(fs)
       IN  /\ fs' = r.fs
           /\ exc' = r.err
           /\ pc' = IF r.err = "" THEN "generate_files" ELSE "raised"
    /\ UNCHANGED << args, templates, existed, confirmed, generator, template_vars,
                    out, opens, outcome, invocation, fs_start, fs_returned >>

\* generator.py 53: self._generate_files(output_path), after which generate returns
GenerateFiles ==
    /\ pc = "generate_files"
    /\ LET tv == get_template_vars(generator[1])
           r == _generate_files(fs, tv, templates)
       IN  /\ template_vars' = << tv >>
           /\ fs' = r.fs
           /\ opens' = r.opens
           /\ outcome' = r.outcome
           /\ out' = out \o r.printed
           /\ exc' = r.err
           /\ pc' = IF r.err = "" THEN "returned" ELSE "raised"
    /\ UNCHANGED << args, templates, existed, confirmed, generator,
                    invocation, fs_start, fs_returned >>

\* cli.py 63-68: the success message and the next steps
ReportSuccess ==
    /\ pc = "returned"
    /\ out' = out \o << Echo("Successfully created project at", ""),
                        Echo("Next steps", "") >>
    /\ pc' = "exit_ok"
    /\ UNCHANGED << args, templates, fs, existed, confirmed, generator, template_vars,
                    exc, opens, outcome, invocation, fs_start, fs_returned >>

\* An except clause that puts the destination back as the command found it.
ReportErrorRollback ==
    /\ pc = "raised"
    /\ out' = Append(out, Echo("Error creating project", exc))
    /\ pc' = "exit_error"
    /\ fs' = fs_start
    /\ UNCHANGED << args, templates, existed, confirmed, generator, template_vars,
                    exc, opens, outcome, invocation, fs_start, fs_returned >>

\* cli.py 70-72: except Exception: echo the error and raise
ReportError ==
    /\ pc = "raised"
    /\ out' = Append(out, Echo("Error creating project", exc))
    /\ pc' = "exit_error"
    /\ UNCHANGED << args, templates, fs, existed, confirmed, generator, template_vars,
                    exc, opens, outcome, invocation, fs_start, fs_returned >>

Exited == pc \in {"exit_ok", "exit_aborted", "exit_error"}

\* The command is started again with the same parameters against the same
\* destination; nothing survives an invocation but the filesystem.
Reinvoke ==
    /\ Exited
    /\ invocation < MaxInvocations
    /\ invocation' = invocation + 1
    /\ pc' = "main"
    /\ existed' = "unknown"
    /\ confirmed' = "none"
    /\ generator' = << >>
    /\ template_vars' = << >>
    /\ exc' = ""
    /\ out' = << >>
    /\ opens' = NoOpens
    /\ outcome' = NoOutcome
    /\ fs_start' = fs
    /\ fs_returned' = IF pc = "exit_ok" THEN << fs >> ELSE fs_returned
    /\ UNCHANGED << args, templates, fs >>

Next ==
    \/ MainStart
    \/ Confirm
    \/ Construct
    \/ Generate
    \/ CreateDirectories
    \/ GenerateFiles
    \/ ReportSuccess
    \/ ReportError
    \/ Reinvoke

Spec == Init /\ [][Next]_vars

---------------------------------------------------------------------------
(* The generator used as a library: ProjectGenerator(...).get_template_vars() *)
(* with any model_type string, which the command's click.Choice would reject *)

ApiArgs ==
    [ name : ProjectNames, workspace_host : WorkspaceHosts,
      model_type : ModelTypeChoice \cup OtherModelTypes, use_gpu : BOOLEAN ]

InitResolver ==
    /\ args \in ApiArgs
    /\ templates = AllTemplates("ok")
    /\ fs = NoTree
    /\ pc = "api"
    /\ existed = "unknown"
    /\ confirmed = "none"
    /\ generator = << >>
    /\ template_vars = << >>
    /\ exc = ""
    /\ out = << >>
    /\ opens = NoOpens
    /\ outcome = NoOutcome
    /\ invocation = 1
    /\ fs_start = fs
    /\ fs_returned = << >>

\* generator.py 13-18: ProjectGenerator(project_name, workspace_host, model_type, use_gpu)
ApiConstruct ==
    /\ pc = "api"
    /\ generator' = << NewGenerator(args) >>
    /\ pc' = "api_built"
    /\ UNCHANGED << args, templates, fs, existed, confirmed, template_vars, exc,
                    out, opens, outcome, invocation, fs_start, fs_returned >>

\* generator.py 20-32: get_template_vars()
ApiGetTemplateVars ==
    /\ pc = "api_built"
    /\ template_vars' = << get_template_vars(generator[1]) >>
    /\ pc' = "api_vars"
    /\ UNCHANGED << args, templates, fs, existed, confirmed, generator, exc,
                    out, opens, outcome, invocation, fs_start, fs_returned >>

NextResolver ==
    \/ ApiConstruct
    \/ ApiGetTemplateVars

SpecResolver == InitResolver /\ [][NextResolver]_vars

---------------------------------------------------------------------------
(* Properties *)

\* generate has returned in this invocation (and main may have reported it).
Returned == pc \in {"returned", "exit_ok"}

LoadOrRenderFailures == {"missing", "syntax_error", "render_error"}

\* C1: whenever generate has returned, each of the six directories of the fixed
\* list is a directory and every output path of the fixed file list is a file
\* under the destination, whatever the states of the templates.
C1_TreeComplete ==
    Returned =>
        /\ Len(directories) = 6
        /\ \A k \in DOMAIN directories : fs[directories[k]].kind = "dir"
        /\ \A k \in DOMAIN files_to_generate : fs[files_to_generate[k][2]].kind = "file"

\* A run that returned although no template could be loaded.
C1_Witness ==
    /\ pc = "returned"
    /\ templates = AllTemplates("missing")
    /\ \A p \in OutputFiles : fs[p].kind = "file"

\* generate as a whole on tree f: output_path.mkdir, _create_directories,
\* _generate_files, each step only if the one before it did not raise.
GenerateOn(f, g, tmpl) ==
    LET a == mkdir(f, << >>)
        b == IF a.err = "" THEN _create_directories(a.fs) ELSE a
    IN  IF b.err = "" THEN _generate_files(b.fs, get_template_vars(g), tmpl)
        ELSE LoopStart(b.fs) @@ [err |-> b.err]

\* The template directory with every template that fails to load or render repaired.
Repaired(tmpl) ==
    [t \in DOMAIN tmpl |-> IF tmpl[t] \in LoadOrRenderFailures THEN "ok" ELSE tmpl[t]]

\* The placeholder the specification gives for a file name, by its extension.
Placeholder(name, project_name) ==
    LET ext == IF Len(name) >= 2 THEN Last(name) ELSE ""
    IN  CASE ext = "py" ->
               << <<"# ">> \o project_name \o <<" - Generated file">>,
                  <<"# TODO: Implement functionality">> >>
          [] ext \in {"yml", "yaml"} ->
               << <<"# ">> \o project_name \o <<" - Generated YAML">>,
                  <<"# TODO: Configure properly">> >>
          [] ext = "json" ->
               << <<"{">>, <<"  \"TODO\": \"Configure properly\"">>, <<"}">> >>
          [] ext = "md" ->
               << <<"# ">> \o project_name, << >>, <<"TODO: Add documentation">> >>
          [] OTHER ->
               << <<"# ">> \o project_name \o <<" - Generated file">> >>

\* C2: fault isolation. When generate has returned, the output file of every
\* template that failed to load or render holds exactly the placeholder of its
\* extension, and every other output file holds what it would hold had no
\* template failed to load or render.
C2_FaultIsolation ==
    Returned =>
        LET healthy == GenerateOn(fs_start, generator[1], Repaired(templates)).fs
        IN  \A k \in DOMAIN files_to_generate :
               LET t == files_to_generate[k][1]
                   p == files_to_generate[k][2]
               IN  IF templates[t] \in LoadOrRenderFailures
                   THEN fs[p] = File(Placeholder(Last(p), args.name))
                   ELSE fs[p] = healthy[p]

\* One template (databricks.yaml.j2) fails to render: its output is the YAML
\* placeholder, and README.md is the rendered text.
C2_Witness ==
    /\ pc = "returned"
    /\ templates = [AllTemplates("ok") EXCEPT !["databricks.yaml.j2"] = "render_error"]
    /\ fs[<< <<"databricks", "yaml">> >>].content =
          << <<"# ">> \o args.name \o <<" - Generated YAML">>,
             <<"# TODO: Configure properly">> >>
    /\ fs[<< <<"README", "md">> >>].content = render("README.md.j2", template_vars[1])

\* The loop of _generate_files has run in this invocation.
LoopRan == \E p \in OutputFiles : outcome[p] # "pending"

Warned(p) == \E k \in DOMAIN out : out[k].path = p

\* C3 (as specified): once the loop has run, no exception has left generate, the
\* loop reached every pair of the list, no call of the fallback writer raised,
\* and a pair ended with the fallback exactly when a warning names its path.
C3_FailuresNeverPropagate ==
    LoopRan =>
        /\ exc = ""
        /\ \A p \in OutputFiles :
              /\ outcome[p] \in {"rendered", "fallback"}
              /\ (outcome[p] = "fallback") <=> Warned(p)

\* Regular files and directories below project_path (project_path excluded).
FilesIn(f) == { p \in Paths : f[p].kind = "file" }

DirsIn(f) == { p \in Paths \ {<< >>} : f[p].kind = "dir" }

\* The destination held nothing when this invocation started.
StartedEmpty == \A p \in Paths \ {<< >>} : fs_start[p].kind = "absent"

\* C4 (as specified): the list has exactly 26 pairs and a completed generate into
\* an empty destination leaves exactly 26 files.
C4_TwentySixFiles ==
    (Returned /\ StartedEmpty) =>
        /\ Len(files_to_generate) = 26
        /\ Cardinality(FilesIn(fs)) = 26

\* C4 (amended): the list has exactly 27 pairs with 27 distinct output paths,
\* and a completed generate into an empty destination leaves exactly those 27
\* files; every directory below the destination is one of the six fixed
\* directories or an ancestor of one.
C4_TwentySevenFiles ==
    /\ Len(files_to_generate) = 27
    /\ Cardinality(OutputFiles) = 27
    /\ (Returned /\ StartedEmpty) =>
          /\ Cardinality(FilesIn(fs)) = 27
          /\ FilesIn(fs) = OutputFiles
          /\ Range(directories) \subseteq DirsIn(fs)
          /\ DirsIn(fs) \subseteq UNION { Prefixes(d) : d \in Range(directories) }

\* generate returned after starting from a destination that did not exist.
C4_Witness ==
    /\ pc = "returned"
    /\ fs_start = NoTree
    /\ Cardinality(FilesIn(fs)) = 27

\* C5: a declined confirmation ends the command with the filesystem as it was
\* when the command started and no generator built; the filesystem changes and
\* a generator exists only if the destination did not exist or the user
\* confirmed.
C5_DeclineChangesNothing ==
    /\ (confirmed = "no") =>
          /\ pc = "exit_aborted"
          /\ existed = "yes"
          /\ generator = << >>
          /\ fs = fs_start
          /\ exc = ""
    /\ (generator # << >> \/ fs # fs_start) =>
          (existed = "no" \/ confirmed = "yes")
    /\ (pc = "exit_aborted") => confirmed = "no"

\* The user declined over a destination that holds a stale README.md.
C5_Witness ==
    /\ pc = "exit_aborted"
    /\ confirmed = "no"
    /\ fs = TreeWith(<< <<"README", "md">> >>, File(StaleText))
    /\ Last(out).text = "Aborted."

Succeeded == \E k \in DOMAIN out : out[k].text = "Successfully created project at"

\* C6: an exception raised by generate (a directory-creation error or any
\* other) reaches main's except clause, which prints the error message and
\* re-raises; the success message is printed only after generate returned; no
\* step removes a path, and from the raise to the exit the filesystem stays as
\* the failed run left it.
C6_FatalErrors ==
    /\ [](/\ (exc # "") <=> (pc \in {"raised", "exit_error"})
          /\ (pc = "exit_error") => Last(out) = Echo("Error creating project", exc)
          /\ Succeeded => (pc = "exit_ok" /\ exc = ""))
    /\ [][/\ (pc = "raised") => (pc' = "exit_error" /\ exc' = exc /\ fs' = fs)
          /\ \A p \in Paths : exists(fs, p) => exists(fs', p)]_vars

\* docs is a regular file: mkdir raises on it after src/ds/utils, notebooks,
\* jobs, policies and ci were created, and they are still there at the exit.
C6_Witness ==
    /\ pc = "exit_error"
    /\ exc = "FileExistsError"
    /\ fs_start = TreeWith(<< <<"docs">> >>, File(StaleText))
    /\ fs[<< <<"ci">> >>].kind = "dir"
    /\ fs[<< <<"src">>, <<"ds">>, <<"utils">> >>].kind = "dir"
    /\ ~ Succeeded

\* C7: once generate has returned in one invocation, generate in a later
\* invocation with the same parameters against the same destination raises
\* nothing, opens every output file again, and returns with the tree the
\* earlier run left.
C7_IdempotentRerun ==
    (fs_returned # << >>) =>
        /\ exc = ""
        /\ Returned =>
              /\ fs = fs_returned[1]
              /\ \A p \in OutputFiles : opens[p] >= 1

\* A second run has returned over the tree of the first.
C7_Witness ==
    /\ invocation = 2
    /\ pc = "returned"
    /\ fs_returned # << >>
    /\ fs = fs_returned[1]
    /\ \A p \in OutputFiles : opens[p] = 1 /\ fs[p].kind = "file"

\* C8: model_specific_deps is the fixed list of the table for each of the five
\* model types, the empty list for custom, and the empty list for any other
\* model_type.
C8_ModelDependencies ==
    (pc = "api_vars") =>
        template_vars[1].model_specific_deps =
            CASE args.model_type = "segmentation" ->
                    <<"monai>=1.3.0", "cellpose==3.0.6", "segment-anything-py">>
              [] args.model_type = "nlp" ->
                    <<"transformers>=4.20.0", "datasets>=2.0.0", "tokenizers>=0.13.0">>
              [] args.model_type = "classification" ->
                    <<"scikit-learn>=1.3.2", "xgboost>=1.7.0">>
              [] args.model_type = "regression" ->
                    <<"scikit-learn>=1.3.2", "statsmodels>=0.14.0">>
              [] OTHER -> << >>

\* The lookup was made for a model_type outside the enum.
C8_Witness ==
    /\ pc = "api_vars"
    /\ args.model_type = "clustering"
    /\ template_vars[1].model_specific_deps = << >>

\* C9 (as specified): within one run no output path is opened for writing twice.
C9_OpenedAtMostOnce == \A p \in OutputFiles : opens[p] <= 1

\* C9 (amended): within one run an output path is opened for writing at most
\* twice; twice only when the rendered text could not be written after the file
\* was opened, the second time by the fallback writer; a path whose template
\* fails to load or render is opened at most once.
C9_OpenedAtMostTwice ==
    \A k \in DOMAIN files_to_generate :
        LET t == files_to_generate[k][1]
            p == files_to_generate[k][2]
        IN  /\ opens[p] <= 2
            /\ (opens[p] = 2) => (templates[t] = "unencodable" /\ outcome[p] = "fallback")
            /\ (templates[t] \in LoadOrRenderFailures) => opens[p] <= 1

\* README.md was opened for the rendered text and again for the placeholder.
C9_Witness ==
    /\ pc = "returned"
    /\ opens[<< <<"README", "md">> >>] = 2
    /\ outcome[<< <<"README", "md">> >>] = "fallback"
    /\ fs[<< <<"README", "md">> >>].content =
          << <<"# ">> \o args.name, << >>, <<"TODO: Add documentation">> >>

\* Number of rotations of the list tried as processing orders.
MaxRotation == 2

Reverse(s) == [k \in 1..Len(s) |-> s[Len(s) + 1 - k]]

Rotate(s, r) == [k \in 1..Len(s) |-> s[((k - 1 + r) % Len(s)) + 1]]

\* Other orders of the pairs of the list.
Orders ==
    { Reverse(files_to_generate) }
    \cup { Rotate(files_to_generate, r) : r \in 1..MaxRotation }

\* C10: the output paths of the list are pairwise distinct, and when the loop
\* is about to run, running it over the pairs in another order completes
\* exactly when the run in list order completes, with the same tree, the same
\* outcome for every pair and the same number of opens of every path.
C10_OrderIndependent ==
    /\ Cardinality(OutputFiles) = Len(files_to_generate)
    /\ (pc = "generate_files") =>
          LET tv == get_template_vars(generator[1])
              a == _generate_files(fs, tv, templates)
          IN  \A o \in Orders :
                 LET b == generate_pairs(LoopStart(fs), o, tv, templates)
                 IN  /\ (b.err = "") <=> (a.err = "")
                     /\ (a.err = "") =>
                           /\ b.fs = a.fs
                           /\ b.outcome = a.outcome
                           /\ b.opens = a.opens

\* The loop is about to run with README.md.j2 missing, and the run over the
\* reversed list completes with the placeholder for README.md.
C10_Witness ==
    /\ pc = "generate_files"
    /\ templates = [AllTemplates("ok") EXCEPT !["README.md.j2"] = "missing"]
    /\ LET b == generate_pairs(LoopStart(fs), Reverse(files_to_generate),
                               get_template_vars(generator[1]), templates)
       IN  /\ b.err = ""
           /\ b.outcome[<< <<"README", "md">> >>] = "fallback"
           /\ b.outcome[<< <<"docs">>, <<"GOVERNANCE", "md">> >>] = "rendered"

===========================================================================
